---- MODULE Spec2Model ----
(***************************************************************************)
(* Model of backend/app.py: the three Flask request handlers               *)
(* (analyze_pitch, text_to_speech, forced_alignment_endpoint), the         *)
(* temporary files they create and remove, and the responses they give.    *)
(* Several requests run concurrently; every statement of a handler that    *)
(* can raise is a step with a success and a failure outcome.               *)
(***************************************************************************)
EXTENDS Integers, Sequences, FiniteSets, TLC

\* ---- bounds of the model ------------------------------------------------
NumReqs == 2
MaxNames == 2
MaxTranscriptLen == 1
MaxFrames == 2

\* ---- program constants --------------------------------------------------
MAX_AUDIO_FILE_SIZE == 10 * 1024 * 1024

\* None, as the initial value of a path variable (and the unbound local
\* speech_file_path of text_to_speech, which has no initial value at all)
NoPath == 0

Reqs == 1..NumReqs
Names == 1..MaxNames

\* characters a transcript is made of: a vocabulary letter, an upper-case
\* letter whose lower case is in the vocabulary, a digit, a blank
Chars == {"a", "B", "1", " "}

\* the vocabulary of the alignment bundle (character -> token index)
DICT_NO_STAR == [c \in {"a", "b"} |-> IF c = "a" THEN 1 ELSE 17]

\* str.lower() on one character
Lower(c) == IF c = "B" THEN "b" ELSE c

IsSpace(c) == c = " "

\* str.split(): the maximal runs of non-blank characters, in order
RECURSIVE Split(_, _)
Split(s, word) ==
    IF s = <<>> THEN (IF word = <<>> THEN <<>> ELSE <<word>>)
    ELSE IF IsSpace(Head(s))
         THEN (IF word = <<>> THEN <<>> ELSE <<word>>) \o Split(Tail(s), <<>>)
         ELSE Split(Tail(s), Append(word, Head(s)))

\* [DICT[char] for char in word if char in DICT]
RECURSIVE WordTokens(_)
WordTokens(w) ==
    IF w = <<>> THEN <<>>
    ELSE (IF Head(w) \in DOMAIN DICT_NO_STAR
          THEN <<DICT_NO_STAR[Head(w)]>> ELSE <<>>) \o WordTokens(Tail(w))

RECURSIVE FlattenTokens(_)
FlattenTokens(ws) ==
    IF ws = <<>> THEN <<>>
    ELSE WordTokens(Head(ws)) \o FlattenTokens(Tail(ws))

\* tokens = [DICT[char] for word in transcript.lower().split() for char in word if char in DICT]
Tokenize(transcript) ==
    FlattenTokens(Split([i \in 1..Len(transcript) |-> Lower(transcript[i])], <<>>))

\* all sequences over S of length at most n
SeqsUpTo(S, n) == UNION {[1..k -> S] : k \in 0..n}

Transcripts == SeqsUpTo(Chars, MaxTranscriptLen)

\* upload sizes around the limit
FileSizes == {MAX_AUDIO_FILE_SIZE - 1, MAX_AUDIO_FILE_SIZE, MAX_AUDIO_FILE_SIZE + 1}

\* pitch.selected_array['frequency']: 0 for an unvoiced frame, else positive
Frequencies == {0, 1, 2}
PitchArrays == SeqsUpTo(Frequencies, MaxFrames)

\* pitch.xs(): the frame times, strictly increasing (frame i at time i)
TimeStamps(pitch_values) == [i \in 1..Len(pitch_values) |-> i]

VoicedWrong(freq) == freq >= 0
\* the filter of the comprehension: if freq > 0
Voiced(freq) == freq > 0

\* [{'time': time, 'frequency': freq} for time, freq in zip(..) if freq > 0]
RECURSIVE PitchResultFrom(_, _, _)
PitchResultFrom(time_stamps, pitch_values, i) ==
    IF i > Len(time_stamps) \/ i > Len(pitch_values) THEN <<>>
    ELSE (IF Voiced(pitch_values[i])
          THEN <<[time |-> time_stamps[i], frequency |-> pitch_values[i]]>>
          ELSE <<>>) \o PitchResultFrom(time_stamps, pitch_values, i + 1)

PitchResult(pitch_values) == PitchResultFrom(TimeStamps(pitch_values), pitch_values, 1)

\* ---- responses -----------------------------------------------------------
NoRet == [status |-> 0, kind |-> "none", error |-> "", data |-> <<>>]
\* jsonify({'error': msg}), status
JsonError(status, msg) == [status |-> status, kind |-> "json_error", error |-> msg, data |-> <<>>]
\* jsonify(result) with status 200
JsonResult(data) == [status |-> 200, kind |-> "json", error |-> "", data |-> data]
\* send_file(..., mimetype="audio/mpeg")
AudioResponse == [status |-> 200, kind |-> "audio", error |-> "", data |-> <<>>]
\* what Flask answers when the view function lets an exception escape
UnhandledResponse == [status |-> 500, kind |-> "html_error", error |-> "Internal Server Error", data |-> <<>>]

NoRequest == [endpoint |-> "none", hasAudio |-> FALSE, hasTranscript |-> FALSE,
              transcript |-> <<>>, file_size |-> 0,
              hasText |-> FALSE, text |-> "", hasApiKey |-> FALSE, api_key |-> ""]

\* a JSON field of the text_to_speech body: absent, empty or set
JsonFields == {<<FALSE, "">>, <<TRUE, "">>, <<TRUE, "x">>}

FalsyWrong(has, value) == ~has
\* Python's "not value" for data.get(field): None or the empty string
Falsy(has, value) == ~has \/ value = ""

VARIABLES
    pc,                 \* where each request's handler is
    req,                \* the request each handler serves
    fs,                 \* the temp directory: name -> request that created the file, 0 = no file
    tmp_name,           \* tmp.name / temp_wav.name inside the with block
    temp_wav_path,      \* analyze_pitch's local
    speech_file_path,   \* text_to_speech's local (NoPath = not yet bound)
    tmp_wav_path,       \* forced_alignment_endpoint's local
    converted_wav_path, \* forced_align_waveform's local
    pitch_values,       \* analyze_pitch's local: the frequencies of the frames
    tokens,             \* forced_align_waveform's local
    failed,             \* forced_align_waveform: an exception is on its way out
    ret,                \* the value of the handler's return statement
    resp,               \* the responses each request got
    events,             \* what each request did, in order
    foreign,            \* some request touched a file another request created
    modelState          \* the process-wide model and vocabulary (version stamp)

vars == <<pc, req, fs, tmp_name, temp_wav_path, speech_file_path, tmp_wav_path,
          converted_wav_path, pitch_values, tokens, failed, ret, resp, events, foreign, modelState>>

paths == <<tmp_name, temp_wav_path, speech_file_path, tmp_wav_path, converted_wav_path>>

Init ==
    /\ pc = [r \in Reqs |-> "idle"]
    /\ req = [r \in Reqs |-> NoRequest]
    /\ fs = [n \in Names |-> 0]
    /\ tmp_name = [r \in Reqs |-> NoPath]
    /\ temp_wav_path = [r \in Reqs |-> NoPath]
    /\ speech_file_path = [r \in Reqs |-> NoPath]
    /\ tmp_wav_path = [r \in Reqs |-> NoPath]
    /\ converted_wav_path = [r \in Reqs |-> NoPath]
    /\ pitch_values = [r \in Reqs |-> <<>>]
    /\ tokens = [r \in Reqs |-> <<>>]
    /\ failed = [r \in Reqs |-> FALSE]
    /\ ret = [r \in Reqs |-> NoRet]
    /\ resp = [r \in Reqs |-> <<>>]
    /\ events = [r \in Reqs |-> <<>>]
    /\ foreign = FALSE
    /\ modelState = "loaded"

\* ---- helpers of the actions ---------------------------------------------
Goto(r, l) == pc' = [pc EXCEPT ![r] = l]
Log(r, e) == events' = [events EXCEPT ![r] = Append(@, e)]
\* the step raised an exception
LogFail(r, e) == events' = [events EXCEPT ![r] = @ \o <<e, "error">>]
Return(r, v) == ret' = [ret EXCEPT ![r] = v]
\* the response leaves the handler
Respond(r, v) == resp' = [resp EXCEPT ![r] = Append(@, v)]

FreshNamesWrong == Names
\* the names tempfile may give a new file: those no file has (it opens with O_EXCL)
FreshNames == {n \in Names : fs[n] = 0}

\* tempfile.NamedTemporaryFile(delete=False) draws a random unused name. No
\* handler looks at a name, it only keeps it and hands it back to the file
\* system, so behaviours that differ in the names drawn are the same up to a
\* renaming of the files; the least unused name stands for the name drawn. It
\* is also the choice that gives a removed file's name to the next file at once.
NewName == CHOOSE n \in FreshNames : \A m \in FreshNames : n <= m

\* request r reads, writes or removes the files at the paths P: is one of
\* them a file another request created?
Touch(r, P) == foreign' = (foreign \/ \E p \in P : fs[p] # 0 /\ fs[p] # r)

\* the file is created: it belongs to r
CreateFile(r, n) == fs' = [fs EXCEPT ![n] = r]

\* if os.path.exists(p): os.remove(p)
RemoveIfExists(r, p) ==
    /\ fs' = [fs EXCEPT ![p] = 0]
    /\ Touch(r, {p})
    /\ IF fs[p] # 0 THEN Log(r, "remove") ELSE UNCHANGED events

Did(r, e) == \E i \in 1..Len(events[r]) : events[r][i] = e

MissingWrong(fields, name) == FALSE
\* 'audio' not in request.files, 'transcript' not in request.form
Missing(fields, name) == name \notin fields

\* the multipart fields a request carries
Fields(q) == (IF q.hasAudio THEN {"audio"} ELSE {}) \cup
             (IF q.hasTranscript THEN {"transcript"} ELSE {})

\* ---- analyze_pitch --------------------------------------------------------
\* the request arrives; 'audio' not in request.files -> 400, before the try
AnalyzePitch(r, I) ==
    /\ pc[r] = "idle"
    /\ \E hasAudio \in I.audio :
        /\ req' = [req EXCEPT ![r] = [NoRequest EXCEPT !.endpoint = "analyze_pitch",
                                                       !.hasAudio = hasAudio]]
        /\ IF Missing(IF hasAudio THEN {"audio"} ELSE {}, "audio")
           THEN /\ Return(r, JsonError(400, "No audio file provided"))
                /\ Respond(r, JsonError(400, "No audio file provided"))
                /\ Goto(r, "done")
           ELSE /\ Goto(r, "ap_mktemp")
                /\ UNCHANGED <<ret, resp>>
    /\ UNCHANGED <<fs, paths, pitch_values, tokens, failed, events, foreign, modelState>>

\* with tempfile.NamedTemporaryFile(suffix='.wav', delete=False) as temp_wav:
\* outside the try, so an OSError escapes the view function
ApMkTemp(r) ==
    /\ pc[r] = "ap_mktemp"
    /\ \/ \E n \in {m \in FreshNames : m = NewName} :
            /\ CreateFile(r, n)
            /\ tmp_name' = [tmp_name EXCEPT ![r] = n]
            /\ Log(r, "mktemp")
            /\ Goto(r, "ap_save")
            /\ UNCHANGED resp
       \/ /\ Respond(r, UnhandledResponse)
          /\ LogFail(r, "mktemp_failed")
          /\ Goto(r, "done")
          /\ UNCHANGED <<fs, tmp_name>>
    /\ UNCHANGED <<req, temp_wav_path, speech_file_path, tmp_wav_path, converted_wav_path,
                   pitch_values, tokens, failed, ret, foreign, modelState>>

\* audio_file.save(temp_wav.name); temp_wav_path = temp_wav.name
\* still outside the try: a failing save escapes and nothing removes the file
ApSave(r) ==
    /\ pc[r] = "ap_save"
    /\ Touch(r, {tmp_name[r]})
    /\ \/ /\ temp_wav_path' = [temp_wav_path EXCEPT ![r] = tmp_name[r]]
          /\ Log(r, "save")
          /\ Goto(r, "ap_process")
          /\ UNCHANGED resp
       \/ /\ Respond(r, UnhandledResponse)
          /\ LogFail(r, "save")
          /\ Goto(r, "done")
          /\ UNCHANGED temp_wav_path
    /\ UNCHANGED <<req, fs, tmp_name, speech_file_path, tmp_wav_path, converted_wav_path,
                   pitch_values, tokens, failed, ret, modelState>>

\* the try block: parselmouth.Sound(..).to_pitch(), the comprehension, jsonify;
\* except Exception -> 500 with the message
ApProcess(r, I) ==
    /\ pc[r] = "ap_process"
    /\ Touch(r, {temp_wav_path[r]})
    /\ \/ \E pv \in I.pitch :
            /\ pitch_values' = [pitch_values EXCEPT ![r] = pv]
            /\ Return(r, JsonResult(PitchResult(pv)))
            /\ Log(r, "pitch")
       \/ /\ Return(r, JsonError(500, "pitch analysis failed"))
          /\ LogFail(r, "pitch")
          /\ UNCHANGED pitch_values
    /\ Goto(r, "ap_finally")
    /\ UNCHANGED <<req, fs, paths, tokens, failed, resp, modelState>>

\* finally: if os.path.exists(temp_wav_path): os.remove(temp_wav_path)
ApFinally(r) ==
    /\ pc[r] = "ap_finally"
    /\ RemoveIfExists(r, temp_wav_path[r])
    /\ Respond(r, ret[r])
    /\ Goto(r, "done")
    /\ UNCHANGED <<req, paths, pitch_values, tokens, failed, ret, modelState>>

\* ---- text_to_speech -------------------------------------------------------
\* data.get('text'), data.get('api_key'); the two checks, before the try
TextToSpeech(r, I) ==
    /\ pc[r] = "idle"
    /\ \E t \in I.text, k \in I.api_key :
        /\ req' = [req EXCEPT ![r] = [NoRequest EXCEPT !.endpoint = "text_to_speech",
                                                       !.hasText = t[1], !.text = t[2],
                                                       !.hasApiKey = k[1], !.api_key = k[2]]]
        /\ IF Falsy(t[1], t[2])
           THEN /\ Return(r, JsonError(400, "No text provided"))
                /\ Respond(r, JsonError(400, "No text provided"))
                /\ Goto(r, "done")
           ELSE IF Falsy(k[1], k[2])
           THEN /\ Return(r, JsonError(400, "No API key provided"))
                /\ Respond(r, JsonError(400, "No API key provided"))
                /\ Goto(r, "done")
           ELSE /\ Goto(r, "tts_client")
                /\ UNCHANGED <<ret, resp>>
    /\ UNCHANGED <<fs, paths, pitch_values, tokens, failed, events, foreign, modelState>>

\* client = OpenAI(api_key=api_key), inside the try
TtsClient(r) ==
    /\ pc[r] = "tts_client"
    /\ \/ /\ Goto(r, "tts_mktemp")
          /\ Log(r, "client")
          /\ UNCHANGED ret
       \/ /\ Return(r, JsonError(500, "client construction failed"))
          /\ LogFail(r, "client")
          /\ Goto(r, "tts_finally")
    /\ UNCHANGED <<req, fs, paths, pitch_values, tokens, failed, resp, foreign, modelState>>

\* with tempfile.NamedTemporaryFile(suffix=".mp3", delete=False) as temp_audio:
\*     speech_file_path = Path(temp_audio.name)
TtsMkTemp(r) ==
    /\ pc[r] = "tts_mktemp"
    /\ \/ \E n \in {m \in FreshNames : m = NewName} :
            /\ CreateFile(r, n)
            /\ speech_file_path' = [speech_file_path EXCEPT ![r] = n]
            /\ Log(r, "mktemp")
            /\ Goto(r, "tts_create")
            /\ UNCHANGED ret
       \/ /\ Return(r, JsonError(500, "temporary file creation failed"))
          /\ LogFail(r, "mktemp_failed")
          /\ Goto(r, "tts_finally")
          /\ UNCHANGED <<fs, speech_file_path>>
    /\ UNCHANGED <<req, tmp_name, temp_wav_path, tmp_wav_path, converted_wav_path,
                   pitch_values, tokens, failed, resp, foreign, modelState>>

\* response = client.audio.speech.create(model="tts-1", voice="alloy", input=text)
TtsCreate(r) ==
    /\ pc[r] = "tts_create"
    /\ \/ /\ Goto(r, "tts_stream")
          /\ Log(r, "api")
          /\ UNCHANGED ret
       \/ /\ Return(r, JsonError(500, "speech API call failed"))
          /\ LogFail(r, "api")
          /\ Goto(r, "tts_finally")
    /\ UNCHANGED <<req, fs, paths, pitch_values, tokens, failed, resp, foreign, modelState>>

\* response.stream_to_file(speech_file_path)
TtsStream(r) ==
    /\ pc[r] = "tts_stream"
    /\ Touch(r, {speech_file_path[r]})
    /\ \/ /\ Goto(r, "tts_send_file")
          /\ Log(r, "stream")
          /\ UNCHANGED ret
       \/ /\ Return(r, JsonError(500, "streaming to file failed"))
          /\ LogFail(r, "stream")
          /\ Goto(r, "tts_finally")
    /\ UNCHANGED <<req, fs, paths, pitch_values, tokens, failed, resp, modelState>>

\* return send_file(speech_file_path, ...): opens the file and builds the
\* response object; the body is read from the open file after the view returns
TtsSendFile(r) ==
    /\ pc[r] = "tts_send_file"
    /\ Touch(r, {speech_file_path[r]})
    /\ \/ /\ Return(r, AudioResponse)
          /\ Log(r, "send_file")
       \/ /\ Return(r, JsonError(500, "send_file failed"))
          /\ LogFail(r, "send_file")
    /\ Goto(r, "tts_finally")
    /\ UNCHANGED <<req, fs, paths, pitch_values, tokens, failed, resp, modelState>>

\* finally: if os.path.exists(speech_file_path): os.remove(speech_file_path)
\* speech_file_path is unbound when the try failed before the with block:
\* the UnboundLocalError replaces the return value of the except clause
TtsFinally(r) ==
    /\ pc[r] = "tts_finally"
    /\ IF speech_file_path[r] = NoPath
       THEN /\ Respond(r, UnhandledResponse)
            /\ Goto(r, "done")
            /\ UNCHANGED <<fs, events, foreign>>
       ELSE /\ RemoveIfExists(r, speech_file_path[r])
            /\ IF ret[r].kind = "audio"
               THEN /\ Goto(r, "tts_sending")
                    /\ UNCHANGED resp
               ELSE /\ Respond(r, ret[r])
                    /\ Goto(r, "done")
    /\ UNCHANGED <<req, paths, pitch_values, tokens, failed, ret, modelState>>

\* the server sends the status, the headers and the body of the response that
\* send_file built, reading the body from the file it opened
WsgiSendBody(r) ==
    /\ pc[r] = "tts_sending"
    /\ Log(r, "send_body")
    /\ Respond(r, ret[r])
    /\ Goto(r, "done")
    /\ UNCHANGED <<req, fs, paths, pitch_values, tokens, failed, ret, foreign, modelState>>

\* ---- forced_alignment_endpoint and forced_align_waveform -------------------
\* the multipart requests: with or without the file (of some size), with or
\* without the transcript field (of some text)
ForcedAlignmentInputs(transcripts, sizes) ==
    {[NoRequest EXCEPT !.endpoint = "forced_alignment",
                       !.hasAudio = (s # 0), !.file_size = s,
                       !.hasTranscript = (t # <<"absent">>),
                       !.transcript = IF t = <<"absent">> THEN <<>> ELSE t] :
        t \in transcripts \cup {<<"absent">>}, s \in sizes \cup {0}}

TooLargeWrong(file_size) == file_size >= MAX_AUDIO_FILE_SIZE
\* if file_size > MAX_AUDIO_FILE_SIZE
TooLarge(file_size) == file_size > MAX_AUDIO_FILE_SIZE

\* the request arrives; the field checks and the size check, inside the try
ForcedAlignment(r, I) ==
    /\ pc[r] = "idle"
    /\ \E q \in ForcedAlignmentInputs(I.transcripts, I.sizes) :
        /\ req' = [req EXCEPT ![r] = q]
        /\ IF Missing(Fields(q), "audio")
           THEN /\ Return(r, JsonError(400, "No audio file provided"))
                /\ Goto(r, "fa_finally")
           ELSE IF Missing(Fields(q), "transcript")
           THEN /\ Return(r, JsonError(400, "No transcript text provided"))
                /\ Goto(r, "fa_finally")
           ELSE IF TooLarge(q.file_size)
           THEN /\ Return(r, JsonError(400, "Audio file too large"))
                /\ Goto(r, "fa_finally")
           ELSE /\ Goto(r, "fa_mktemp")
                /\ UNCHANGED ret
    /\ UNCHANGED <<fs, paths, pitch_values, tokens, failed, resp, events, foreign, modelState>>

\* with tempfile.NamedTemporaryFile(suffix='.wav', delete=False) as tmp:
FaMkTemp(r) ==
    /\ pc[r] = "fa_mktemp"
    /\ \/ \E n \in {m \in FreshNames : m = NewName} :
            /\ CreateFile(r, n)
            /\ tmp_name' = [tmp_name EXCEPT ![r] = n]
            /\ Log(r, "mktemp")
            /\ Goto(r, "fa_save")
            /\ UNCHANGED ret
       \/ /\ Return(r, JsonError(500, "Internal server error: temporary file creation failed"))
          /\ LogFail(r, "mktemp_failed")
          /\ Goto(r, "fa_finally")
          /\ UNCHANGED <<fs, tmp_name>>
    /\ UNCHANGED <<req, temp_wav_path, speech_file_path, tmp_wav_path, converted_wav_path,
                   pitch_values, tokens, failed, resp, foreign, modelState>>

\* audio_file.save(tmp.name); tmp_wav_path = tmp.name
\* a failing save leaves tmp_wav_path None
FaSave(r) ==
    /\ pc[r] = "fa_save"
    /\ Touch(r, {tmp_name[r]})
    /\ \/ /\ tmp_wav_path' = [tmp_wav_path EXCEPT ![r] = tmp_name[r]]
          /\ Log(r, "save")
          /\ Goto(r, "faw_mktemp")
          /\ UNCHANGED ret
       \/ /\ Return(r, JsonError(500, "Internal server error: saving the upload failed"))
          /\ LogFail(r, "save")
          /\ Goto(r, "fa_finally")
          /\ UNCHANGED tmp_wav_path
    /\ UNCHANGED <<req, fs, tmp_name, temp_wav_path, speech_file_path, converted_wav_path,
                   pitch_values, tokens, failed, resp, modelState>>

\* forced_align_waveform: with tempfile.NamedTemporaryFile(...) as tmp_converted:
\*     converted_wav_path = tmp_converted.name
FawMkTemp(r) ==
    /\ pc[r] = "faw_mktemp"
    /\ \/ \E n \in {m \in FreshNames : m = NewName} :
            /\ CreateFile(r, n)
            /\ converted_wav_path' = [converted_wav_path EXCEPT ![r] = n]
            /\ Log(r, "mktemp")
            /\ Goto(r, "faw_convert")
            /\ UNCHANGED failed
       \/ /\ failed' = [failed EXCEPT ![r] = TRUE]
          /\ LogFail(r, "mktemp_failed")
          /\ Goto(r, "faw_finally")
          /\ UNCHANGED <<fs, converted_wav_path>>
    /\ UNCHANGED <<req, tmp_name, temp_wav_path, speech_file_path, tmp_wav_path,
                   pitch_values, tokens, ret, resp, foreign, modelState>>

\* convert_to_pcm_wav(wav_path, converted_wav_path): ffmpeg reads the upload and
\* writes the converted file; a non-zero exit raises RuntimeError
FawConvert(r) ==
    /\ pc[r] = "faw_convert"
    /\ Touch(r, {tmp_wav_path[r], converted_wav_path[r]})
    /\ \/ /\ Goto(r, "faw_read")
          /\ Log(r, "ffmpeg")
          /\ UNCHANGED failed
       \/ /\ failed' = [failed EXCEPT ![r] = TRUE]
          /\ LogFail(r, "ffmpeg")
          /\ Goto(r, "faw_finally")
    /\ UNCHANGED <<req, fs, paths, pitch_values, tokens, ret, resp, modelState>>

\* inspect_audio_file (never raises), sf.read, the tensor and the resampling
FawRead(r) ==
    /\ pc[r] = "faw_read"
    /\ Touch(r, {converted_wav_path[r]})
    /\ \/ /\ Goto(r, "faw_model")
          /\ Log(r, "read")
          /\ UNCHANGED failed
       \/ /\ failed' = [failed EXCEPT ![r] = TRUE]
          /\ LogFail(r, "read")
          /\ Goto(r, "faw_finally")
    /\ UNCHANGED <<req, fs, paths, pitch_values, tokens, ret, resp, modelState>>

\* with torch.no_grad(): emissions, _ = model(waveform)
FawModel(r) ==
    /\ pc[r] = "faw_model"
    /\ \/ /\ Goto(r, "faw_tokens")
          /\ Log(r, "model")
          /\ UNCHANGED failed
       \/ /\ failed' = [failed EXCEPT ![r] = TRUE]
          /\ LogFail(r, "model")
          /\ Goto(r, "faw_finally")
    /\ UNCHANGED <<req, fs, paths, pitch_values, tokens, ret, resp, foreign, modelState>>

\* tokens = [...]; if not tokens: raise ValueError("No valid tokens found in transcript.")
FawTokens(r) ==
    /\ pc[r] = "faw_tokens"
    /\ tokens' = [tokens EXCEPT ![r] = Tokenize(req[r].transcript)]
    /\ IF Tokenize(req[r].transcript) = <<>>
       THEN /\ failed' = [failed EXCEPT ![r] = TRUE]
            /\ LogFail(r, "tokens")
            /\ Goto(r, "faw_finally")
       ELSE /\ Goto(r, "faw_align")
            /\ Log(r, "tokens")
            /\ UNCHANGED failed
    /\ UNCHANGED <<req, fs, paths, pitch_values, ret, resp, foreign, modelState>>

\* F.forced_align, F.merge_tokens, the list of spans
FawAlign(r) ==
    /\ pc[r] = "faw_align"
    /\ \/ /\ Log(r, "align")
          /\ UNCHANGED failed
       \/ /\ LogFail(r, "align")
          /\ failed' = [failed EXCEPT ![r] = TRUE]
    /\ Goto(r, "faw_finally")
    /\ UNCHANGED <<req, fs, paths, pitch_values, tokens, ret, resp, foreign, modelState>>

\* forced_align_waveform's except (re-raise as RuntimeError) and finally (remove
\* the converted file), then the endpoint's return or its except clause
FawFinally(r) ==
    /\ pc[r] = "faw_finally"
    /\ IF converted_wav_path[r] # NoPath
       THEN RemoveIfExists(r, converted_wav_path[r])
       ELSE UNCHANGED <<fs, events, foreign>>
    /\ IF failed[r]
       THEN Return(r, JsonError(500, "Internal server error: Failed during forced alignment"))
       ELSE Return(r, JsonResult(tokens[r]))
    /\ Goto(r, "fa_finally")
    /\ UNCHANGED <<req, paths, pitch_values, tokens, failed, resp, modelState>>

\* finally: if tmp_wav_path and os.path.exists(tmp_wav_path): os.remove(tmp_wav_path)
FaFinally(r) ==
    /\ pc[r] = "fa_finally"
    /\ IF tmp_wav_path[r] # NoPath
       THEN RemoveIfExists(r, tmp_wav_path[r])
       ELSE UNCHANGED <<fs, events, foreign>>
    /\ Respond(r, ret[r])
    /\ Goto(r, "done")
    /\ UNCHANGED <<req, paths, pitch_values, tokens, failed, ret, modelState>>

\* ---- the system ------------------------------------------------------------
\* one step of the handler serving request r, its inputs drawn from I
Handler(r, I) ==
    \/ AnalyzePitch(r, I) \/ ApMkTemp(r) \/ ApSave(r) \/ ApProcess(r, I) \/ ApFinally(r)
    \/ TextToSpeech(r, I) \/ TtsClient(r) \/ TtsMkTemp(r) \/ TtsCreate(r)
    \/ TtsStream(r) \/ TtsSendFile(r) \/ TtsFinally(r) \/ WsgiSendBody(r)
    \/ ForcedAlignment(r, I) \/ FaMkTemp(r) \/ FaSave(r)
    \/ FawMkTemp(r) \/ FawConvert(r) \/ FawRead(r) \/ FawModel(r)
    \/ FawTokens(r) \/ FawAlign(r) \/ FawFinally(r) \/ FaFinally(r)

\* every input within the bounds
AllInputs ==
    [audio |-> BOOLEAN, pitch |-> PitchArrays, text |-> JsonFields, api_key |-> JsonFields,
     transcripts |-> Transcripts, sizes |-> FileSizes]

\* a few inputs of each endpoint: with and without the file, a voiced and an
\* unvoiced frame, a body without text and a complete one, a transcript of the
\* vocabulary, an upload at the limit and one above it
SomeInputs ==
    [audio |-> BOOLEAN, pitch |-> {<<0, 1>>}, text |-> {<<FALSE, "">>, <<TRUE, "x">>},
     api_key |-> {<<TRUE, "x">>},
     transcripts |-> {<<"a">>},
     sizes |-> {MAX_AUDIO_FILE_SIZE, MAX_AUDIO_FILE_SIZE + 1}]

\* one request served on its own, with every input
Next == Handler(1, AllInputs)

Spec == Init /\ [][Next]_vars

\* NumReqs requests served concurrently
NextConc == \E r \in Reqs : Handler(r, SomeInputs)

SpecConc == Init /\ [][NextConc]_vars

\* ---- properties ----------------------------------------------------------
Done(r) == pc[r] = "done"
Is(r, endpoint) == req[r].endpoint = endpoint
\* the handler has returned (the audio response may still be on its way)
Returned(r) == pc[r] \in {"done", "tts_sending"}
\* the files that request r created and that still exist
FilesOf(r) == {n \in Names : fs[n] = r}
\* the step that raised, when one did
FailedStep(r) ==
    IF \E i \in 2..Len(events[r]) : events[r][i] = "error"
    THEN events[r][(CHOOSE i \in 2..Len(events[r]) : events[r][i] = "error") - 1]
    ELSE "none"
\* the request got exactly this one response
OnlyResponse(r, status, kind) ==
    /\ Len(resp[r]) = 1
    /\ resp[r][1].status = status
    /\ resp[r][1].kind = kind

\* C1: once a request to any endpoint has finished, on whatever exit path, no
\* temporary file created during that request exists any more.
C1_NoTempFileRemains ==
    \A r \in Reqs : Returned(r) => FilesOf(r) = {}

\* C2: a forced_alignment request whose transcript has no vocabulary character
\* ends with an error response and never runs the model.
C2_NoModelOnZeroTokens ==
    \A r \in Reqs :
        (Is(r, "forced_alignment") /\ req[r].hasAudio /\ req[r].hasTranscript
            /\ \A i \in 1..Len(req[r].transcript) :
                   Lower(req[r].transcript[i]) \notin DOMAIN DICT_NO_STAR)
        => /\ ~Did(r, "model")
           /\ Done(r) => (Len(resp[r]) = 1 /\ resp[r][1].status >= 400)

\* C3: a forced_alignment request that reaches the token check with zero valid
\* tokens is answered with status 400, not 500.
C3_ZeroTokensIs400 ==
    \A r \in Reqs :
        (Done(r) /\ Is(r, "forced_alignment") /\ FailedStep(r) = "tokens")
        => OnlyResponse(r, 400, "json_error")

\* C4: a forced_alignment request with both fields and an upload of more than
\* 10 MB gets a 400 and creates no file, runs no transcoder and no model; an
\* upload of 10 MB or less is not rejected for its size.
C4_OversizedUploadRejected ==
    \A r \in Reqs :
        (Is(r, "forced_alignment") /\ req[r].hasAudio /\ req[r].hasTranscript)
        => /\ req[r].file_size > 10 * 1024 * 1024
              => /\ events[r] = <<>>
                 /\ FilesOf(r) = {}
                 /\ Done(r) => /\ OnlyResponse(r, 400, "json_error")
                               /\ resp[r][1].error = "Audio file too large"
           /\ req[r].file_size <= 10 * 1024 * 1024
              => /\ ret[r].error # "Audio file too large"
                 /\ pc[r] # "fa_finally" \/ events[r] # <<>>
                 /\ Done(r) => events[r] # <<>>

C4_Witness ==
    \E r \in Reqs :
        /\ Done(r) /\ Is(r, "forced_alignment")
        /\ req[r].hasTranscript
        /\ req[r].file_size = 10 * 1024 * 1024 + 1
        /\ OnlyResponse(r, 400, "json_error")

\* C5: a request to analyze_pitch or forced_alignment without the 'audio' field,
\* or to forced_alignment with 'audio' but without 'transcript', gets a 400 with
\* an error message and nothing is processed: no file, no analysis, no
\* transcoding, no inference.
C5_MissingFieldRejected ==
    \A r \in Reqs :
        ((Is(r, "analyze_pitch") \/ Is(r, "forced_alignment"))
            /\ (~req[r].hasAudio \/ (Is(r, "forced_alignment") /\ ~req[r].hasTranscript)))
        => /\ events[r] = <<>>
           /\ FilesOf(r) = {}
           /\ Done(r) => /\ OnlyResponse(r, 400, "json_error")
                         /\ resp[r][1].error # ""

C5_Witness ==
    /\ \E r \in Reqs : Done(r) /\ Is(r, "forced_alignment") /\ req[r].hasAudio
                        /\ ~req[r].hasTranscript /\ OnlyResponse(r, 400, "json_error")

ListedFailures == {"pitch", "ffmpeg", "model", "client", "api", "stream"}

\* C7: a request in which one of these steps failed ends with exactly one
\* response, of status 500 and with the JSON error envelope.
C7_FailureIsJson500 ==
    \A r \in Reqs :
        (Done(r) /\ FailedStep(r) \in ListedFailures)
        => /\ OnlyResponse(r, 500, "json_error")
           /\ resp[r][1].error # ""

\* C8: the analyze_pitch success response holds exactly the frames with
\* frequency > 0, each with its own time stamp, in the original order.
C8_OnlyVoicedFrames ==
    \A r \in Reqs :
        (Done(r) /\ Is(r, "analyze_pitch") /\ Did(r, "pitch") /\ ~Did(r, "error"))
        => LET out == resp[r][1].data
               pv == pitch_values[r]
               ts == TimeStamps(pv)
           IN  /\ OnlyResponse(r, 200, "json")
               /\ \A i \in 1..Len(out) :
                    /\ out[i].frequency > 0
                    /\ \E j \in 1..Len(pv) : ts[j] = out[i].time /\ pv[j] = out[i].frequency
               /\ \A j \in 1..Len(pv) :
                    pv[j] > 0 => \E i \in 1..Len(out) :
                                    out[i] = [time |-> ts[j], frequency |-> pv[j]]
               /\ \A i, k \in 1..Len(out) : i < k => out[i].time < out[k].time

C8_Witness ==
    \E r \in Reqs :
        /\ Done(r) /\ Is(r, "analyze_pitch") /\ Did(r, "pitch") /\ ~Did(r, "error")
        /\ Len(resp[r][1].data) > 0
        /\ Len(resp[r][1].data) < Len(pitch_values[r])

\* C9: in a text_to_speech request that answers with the audio, the temporary
\* file is not removed before the response body has been sent.
C9_RemovedOnlyAfterBodySent ==
    \A r \in Reqs :
        (Is(r, "text_to_speech") /\ ret[r].kind = "audio" /\ Did(r, "remove"))
        => Did(r, "send_body")

\* the paths the handler of r still has to work on at its current step
PathsInUse(r) ==
    CASE pc[r] = "ap_save" -> {tmp_name[r]}
      [] pc[r] \in {"ap_process", "ap_finally"} -> {temp_wav_path[r]}
      [] pc[r] \in {"tts_create", "tts_stream", "tts_send_file", "tts_finally"}
            -> {speech_file_path[r]} \ {NoPath}
      [] pc[r] = "fa_save" -> {tmp_name[r]}
      [] pc[r] \in {"faw_mktemp", "faw_convert", "faw_read", "faw_model", "faw_tokens",
                    "faw_align", "faw_finally"}
            -> {tmp_wav_path[r], converted_wav_path[r]} \ {NoPath}
      [] pc[r] = "fa_finally" -> {tmp_wav_path[r]} \ {NoPath}
      [] OTHER -> {}

\* C10: under any interleaving, a request reads, writes and removes only files
\* it created itself, the files it works on are its own, and the model and the
\* vocabulary stay as loaded.
C10_RequestsIsolated ==
    /\ ~foreign
    /\ modelState = "loaded"
    /\ \A r \in Reqs : \A p \in PathsInUse(r) : fs[p] = r
    /\ \A r1, r2 \in Reqs : r1 # r2 => PathsInUse(r1) \cap PathsInUse(r2) = {}

\* two requests at work at once, each on a file of its own, one of them on a
\* file with the name of the converted file the other has removed
C10_Witness ==
    \E r1, r2 \in Reqs :
        /\ r1 # r2
        /\ PathsInUse(r1) # {} /\ PathsInUse(r2) # {}
        /\ Did(r1, "remove")
        /\ converted_wav_path[r1] \in PathsInUse(r2)

====
